---------------------------- MODULE Spec2Model ----------------------------
(***************************************************************************)
(* Document ingestion and retrieval-augmented question answering backend   *)
(* (backend/app): the upload, query, delete and stats handlers of main.py  *)
(* over RAGService, WalrusService and SuiService.                          *)
(*                                                                         *)
(* Every handler is an `async def`, so the handlers share one event loop:  *)
(* a handler runs from one `await` on an external call to the next without *)
(* interleaving, and a synchronous external call made inside a handler     *)
(* (registry RPC, embedding, LLM) keeps the loop for its whole duration.   *)
(*                                                                         *)
(* Texts are modelled as slices [blob, lo, hi) of a separator-free         *)
(* document text, so chunk sizes and excerpt limits keep their real        *)
(* values.  Messages are sequences of message fragments (concatenation is  *)
(* \o).                                                                    *)
(*                                                                         *)
(* The blob store and the ledger are shared with other clients: what they  *)
(* hold is not state of the service but an input of each call that reads   *)
(* them.                                                                   *)
(***************************************************************************)
EXTENDS Integers, Sequences, FiniteSets, TLC

VARIABLES
    settings,   \* Settings: which credentials / package ids are configured
    rag,        \* RAGService lazily built clients (_embeddings, _vectorstore, _llm)
    index,      \* the Chroma collection: sequence of chunks in insertion order
    batches,    \* number of add_texts calls that generated ids so far
    req,        \* per request slot: the handler's position and locals
    loop,       \* "free", or the slot that keeps the event loop in a blocking call
    out,        \* the HTTP response delivered by the last step (NoOut if none)
    started     \* number of requests accepted so far

vars == <<settings, rag, index, batches, req, loop, out, started>>

-----------------------------------------------------------------------------
(* Bounds of the model *)

MaxOps == 2         \* requests accepted in one behaviour
MaxMints == 1       \* DocumentAsset objects the ledger holds when it is read

(* Program constants *)

chunk_size == 1000
chunk_overlap == 200
similarity_top_k == 5
ExcerptLimit == 200
gas_budget == 10000000
HTTP_OK == 200
HTTP_ERROR == 500
HTTP_NOT_FOUND == 404
HTTP_FORBIDDEN == 403

\* None where a string is expected, and where a list or a dict is expected
None == "None"
NoneObj == [is_none |-> TRUE]
List(items) == [items |-> items]

Reqs == {"r1", "r2"}

-----------------------------------------------------------------------------
(* Small generic helpers *)

Range(s) == {s[i] : i \in 1..Len(s)}

Abs(n) == IF n < 0 THEN 0 - n ELSE n

\* Python truthiness of an Optional[str] and of an Optional[List]
TruthyStr(x) == x /= None /\ x /= ""

Truthy(x) == x /= NoneObj /\ x /= List(<<>>)

\* str.lower() on the strings the model uses
Lower(s) ==
    CASE s = "PDF" -> "pdf"
      [] s = "0xA1" -> "0xa1"
      [] s = "0xB2" -> "0xb2"
      [] OTHER -> s

-----------------------------------------------------------------------------
(* Inputs *)

\* Uploaded files: filename parts (split on '.'), the length of the text the
\* extraction chosen by that filename yields, and whether PyPDF2 can read the
\* bytes.  The blob id is derived from the content by the blob store: the
\* text of paper.PDF is 179 characters and the newline appended after its
\* page; its bytes sent again as paper.txt are the same blob, decoded as
\* utf-8 instead of read page by page.
Files ==
    { [blob |-> "b1", filename |-> <<"book", "txt">>, len |-> 3000, readable |-> TRUE],
      [blob |-> "b2", filename |-> <<"paper", "PDF">>, len |-> 180, readable |-> TRUE],
      [blob |-> "b2", filename |-> <<"paper", "txt">>, len |-> 1200, readable |-> TRUE],
      [blob |-> "b3", filename |-> <<"scan", "pdf">>, len |-> 0, readable |-> FALSE],
      [blob |-> "b4", filename |-> <<"empty", "bin">>, len |-> 0, readable |-> TRUE] }

Blobs == {f.blob : f \in Files}

-----------------------------------------------------------------------------
(* Exceptions and messages *)

Exc(type, msg) == [type |-> type, msg |-> msg]

\* str(e) if str(e) else f"{type(e).__name__}: {repr(e)}"
ErrorMsg(e) == IF e.msg /= <<>> THEN e.msg ELSE <<e.type, ": ", e.type, "()">>

MsgNoKey == <<"OPENAI_API_KEY is required for RAG operations. Please set it in your environment variables.">>

MsgNoInfo == "I couldn't find any relevant information in the documents to answer your question."

MsgUploaded == "Document uploaded to Walrus. Please sign the transaction to mint NFT on Sui."

-----------------------------------------------------------------------------
(* RAGService: lazily built clients *)

\* _get_embeddings: builds the embedding client at first use; no key, no client
GetEmbeddings(r, s) ==
    IF r._embeddings = None
    THEN IF ~TruthyStr(s.openai_api_key)
         THEN [ok |-> FALSE, exc |-> Exc("ValueError", MsgNoKey), rag |-> r]
         ELSE [ok |-> TRUE, rag |-> [r EXCEPT !._embeddings = "OpenAIEmbeddings"]]
    ELSE [ok |-> TRUE, rag |-> r]

\* variant of GetVectorstore that opens the collection without an embedding client
GetVectorstore_NoCheck(r, s) ==
    [ok |-> TRUE, rag |-> [r EXCEPT !._vectorstore = "Chroma"]]

\* _get_vectorstore: opens the Chroma collection at first use
GetVectorstore(r, s) ==
    IF r._vectorstore = None
    THEN LET e == GetEmbeddings(r, s)
         IN  IF e.ok
             THEN [ok |-> TRUE, rag |-> [e.rag EXCEPT !._vectorstore = "Chroma"]]
             ELSE e
    ELSE [ok |-> TRUE, rag |-> r]

\* _get_llm: builds the chat model at first use
GetLlm(r, s) ==
    IF r._llm = None
    THEN IF ~TruthyStr(s.openai_api_key)
         THEN [ok |-> FALSE, exc |-> Exc("ValueError", MsgNoKey), rag |-> r]
         ELSE [ok |-> TRUE, rag |-> [r EXCEPT !._llm = "ChatOpenAI"]]
    ELSE [ok |-> TRUE, rag |-> r]

-----------------------------------------------------------------------------
(* Text extraction and chunking *)

TextLen(t) == t.hi - t.lo

\* filename.lower().split('.')[-1]
Extension(filename) == Lower(filename[Len(filename)])

TextExtensions == {"txt", "md", "py", "js", "java", "cpp", "c", "h"}

\* extract_text_from_pdf: PyPDF2 reads the pages, and a newline is appended
\* after each page's text, or the failure is re-raised.  `newline` tells
\* that the last character of the text is that newline.
ExtractTextFromPdf(file) ==
    IF file.readable
    THEN [ok |-> TRUE, text |-> [blob |-> file.blob, lo |-> 0, hi |-> file.len,
                                 newline |-> file.len > 0]]
    ELSE [ok |-> FALSE,
          exc |-> Exc("Exception", <<"Failed to extract text from PDF: ", "EOF marker not found">>)]

\* extract_text_from_file: pdf goes to the pdf reader, anything else is
\* decoded as utf-8 ignoring malformed bytes, which never raises
ExtractTextFromFile(file) ==
    IF Extension(file.filename) = "pdf"
    THEN ExtractTextFromPdf(file)
    ELSE IF Extension(file.filename) \in TextExtensions
         THEN [ok |-> TRUE, text |-> [blob |-> file.blob, lo |-> 0, hi |-> file.len,
                                      newline |-> FALSE]]
         ELSE [ok |-> TRUE, text |-> [blob |-> file.blob, lo |-> 0, hi |-> file.len,
                                      newline |-> FALSE]]

\* RecursiveCharacterTextSplitter on a text without separators: windows of
\* chunk_size characters, each starting chunk_overlap before the end of the
\* previous one
RECURSIVE Windows(_, _, _)
Windows(blob, lo, hi) ==
    IF hi - lo <= chunk_size
    THEN <<[blob |-> blob, lo |-> lo, hi |-> hi]>>
    ELSE <<[blob |-> blob, lo |-> lo, hi |-> lo + chunk_size]>>
         \o Windows(blob, lo + chunk_size - chunk_overlap, hi)

\* text_splitter.split_text: the newline that ends a text is a separator,
\* and the splitter strips the whitespace around a chunk (strip_whitespace)
\* and drops a chunk that is left empty: the windows are cut from the text
\* without that newline, and a text that is empty without it has no chunk
SplitText(t) ==
    LET hi == IF t.newline THEN t.hi - 1 ELSE t.hi
    IN  IF hi - t.lo <= 0 THEN <<>> ELSE Windows(t.blob, t.lo, hi)

\* the per-chunk metadata of process_document, with the caller's metadata
\* (owner, is_public) merged over it
ChunkMetadatas(blob_id, filename, chunks, metadata) ==
    [i \in 1..Len(chunks) |->
        [walrus_blob_id |-> blob_id,
         filename |-> filename,
         chunk_index |-> i - 1,
         total_chunks |-> Len(chunks),
         owner |-> metadata.owner,
         is_public |-> metadata.is_public]]

-----------------------------------------------------------------------------
(* The Chroma collection *)

\* variant of AddTexts that leaves the last text out
AddTexts_SkipsLast(idx, batch, texts, metadatas) ==
    idx \o [i \in 1..(Len(texts) - 1) |->
              [id |-> <<batch, i>>, page_content |-> texts[i], metadata |-> metadatas[i]]]

\* Chroma.add_texts: one id per text, all texts upserted by one collection call
AddTexts(idx, batch, texts, metadatas) ==
    idx \o [i \in 1..Len(texts) |->
              [id |-> <<batch, i>>, page_content |-> texts[i], metadata |-> metadatas[i]]]

\* variant of GetIds that asks for the ids without the where clause
GetIds_NoWhere(idx, blob_id) ==
    [i \in 1..Len(idx) |-> idx[i].id]

\* Chroma.get(where={"walrus_blob_id": blob_id})["ids"]
GetIds(idx, blob_id) ==
    LET hit(c) == c.metadata.walrus_blob_id = blob_id
        sel == SelectSeq(idx, hit)
    IN  [i \in 1..Len(sel) |-> sel[i].id]

\* variant of DeleteIds that deletes the first id only
DeleteIds_FirstOnly(idx, ids) ==
    LET keep(c) == ids = <<>> \/ c.id /= ids[1]
    IN  SelectSeq(idx, keep)

\* Chroma.delete(ids=ids)
DeleteIds(idx, ids) ==
    LET keep(c) == c.id \notin Range(ids)
    IN  SelectSeq(idx, keep)

\* stand-in for the embedding provider: a position on a line per text
EmbedText(t) ==
    LET seed == CASE t.blob = "b1" -> 0 [] t.blob = "b2" -> 3 [] OTHER -> 5
    IN  seed + (t.lo \div 100)

EmbedQuestion(q) == IF q = "q_intro" THEN 0 ELSE 30

Distance(q, c) == Abs(EmbedQuestion(q) - EmbedText(c.page_content))

\* the metadata filter {"walrus_blob_id": {"$in": document_ids}}
Matches(c, filter) ==
    filter = NoneObj \/ c.metadata.walrus_blob_id \in Range(filter.walrus_blob_id.in)

\* the k nearest of the positions in `cand`, nearest first, earlier insertion
\* first among equals
RECURSIVE Nearest(_, _, _, _)
Nearest(idx, q, cand, k) ==
    IF k = 0 \/ cand = {}
    THEN <<>>
    ELSE LET best == CHOOSE i \in cand :
                        \A j \in cand :
                            \/ Distance(q, idx[i]) < Distance(q, idx[j])
                            \/ Distance(q, idx[i]) = Distance(q, idx[j]) /\ i <= j
         IN  <<idx[best]>> \o Nearest(idx, q, cand \ {best}, k - 1)

\* Chroma.similarity_search(question, k=k, filter=filter)
SimilaritySearch(idx, q, k, filter) ==
    Nearest(idx, q, {i \in 1..Len(idx) : Matches(idx[i], filter)}, k)

-----------------------------------------------------------------------------
(* WalrusService *)

\* what the publisher can answer to PUT /v1/store for this content: the
\* store is shared with every other client of the publisher, so the blob is
\* new to it or already certified whatever this service uploaded before
PutResponses(file) ==
    { [http |-> "ok", json |-> "newlyCreated", blobId |-> file.blob],
      [http |-> "ok", json |-> "alreadyCertified", blobId |-> file.blob],
      [http |-> "ok", json |-> "other", blobId |-> None],
      [http |-> "error", msg |-> <<"503 Service Unavailable">>] }

\* upload_blob: the blob id of either response format, or an exception
UploadBlob(resp) ==
    IF resp.http = "error"
    THEN [ok |-> FALSE, exc |-> Exc("Exception", <<"Failed to upload to Walrus: ">> \o resp.msg)]
    ELSE IF resp.json = "newlyCreated"
         THEN [ok |-> TRUE, blob_id |-> resp.blobId, sui_ref_type |-> "newlyCreated"]
         ELSE IF resp.json = "alreadyCertified"
              THEN [ok |-> TRUE, blob_id |-> resp.blobId, sui_ref_type |-> "alreadyCertified"]
              ELSE [ok |-> FALSE,
                    exc |-> Exc("ValueError", <<"Unexpected Walrus response format: ", "{}">>)]

\* every answer of the publisher, for any content
PutResponseSpace == UNION {PutResponses(f) : f \in Files}

-----------------------------------------------------------------------------
(* SuiService *)

RpcOutcomes == {"ok", "not_ok", "raise"}

\* get_user_documents: the DocumentAsset objects the ledger lists for the
\* address; a result that is not ok gives the empty list, a raised error is
\* re-raised
GetUserDocuments(reg, wallet_address, rpc) ==
    IF rpc = "raise"
    THEN [ok |-> FALSE,
          exc |-> Exc("Exception", <<"Failed to get user documents: ", "connection refused">>)]
    ELSE IF rpc = "not_ok"
         THEN [ok |-> TRUE, documents |-> <<>>]
         ELSE LET owned(d) == Lower(d.owner) = Lower(wallet_address)
              IN  [ok |-> TRUE, documents |-> SelectSeq(reg, owned)]

\* get_document: the DocumentAsset with that object id, None when the ledger
\* has none or the result is not ok; a raised error is re-raised
SuiGetDocument(reg, document_id, rpc) ==
    IF rpc = "raise"
    THEN [ok |-> FALSE,
          exc |-> Exc("Exception", <<"Failed to get document: ", "connection refused">>)]
    ELSE LET hit(d) == d.id = document_id
             found == SelectSeq(reg, hit)
         IN  IF rpc = "ok" /\ found /= <<>>
             THEN [ok |-> TRUE, document |-> found[1]]
             ELSE [ok |-> TRUE, document |-> NoneObj]

\* variant of VerifyOwnership that accepts every wallet
VerifyOwnership_AnyWallet(reg, document_id, wallet_address, rpc) == TRUE

\* verify_ownership: owner and wallet compared in lower case; no document
\* and any raised error give False
VerifyOwnership(reg, document_id, wallet_address, rpc) ==
    LET d == SuiGetDocument(reg, document_id, rpc)
    IN  IF ~d.ok
        THEN FALSE
        ELSE IF d.document /= NoneObj
             THEN Lower(d.document.owner) = Lower(wallet_address)
             ELSE FALSE

-----------------------------------------------------------------------------
(* RAGService.process_document *)

AddOutcomes == {"ok", "embed_fail", "persist_fail"}

\* process_document up to the embedding call of add_texts: extract, split,
\* build the metadatas, open the vector store
ProcessDocumentBegin(r, s, blob_id, file, metadata) ==
    LET x == ExtractTextFromFile(file)
    IN  IF ~x.ok
        THEN [ok |-> FALSE, rag |-> r,
              exc |-> Exc("Exception", <<"Failed to process document: ">> \o x.exc.msg)]
        ELSE LET chunks == SplitText(x.text)
                 v == GetVectorstore(r, s)
             IN  IF ~v.ok
                 THEN [ok |-> FALSE, rag |-> v.rag,
                       exc |-> Exc("Exception", <<"Failed to process document: ">> \o v.exc.msg)]
                 ELSE [ok |-> TRUE, rag |-> v.rag,
                       chunks |-> chunks,
                       metadatas |-> ChunkMetadatas(blob_id, file.filename, chunks, metadata),
                       text_length |-> TextLen(x.text)]

\* process_document from the embedding call on: add_texts, persist, result.
\* No step undoes add_texts when persist raises.
ProcessDocumentFinish(idx, batch, blob_id, p, outcome) ==
    IF outcome = "embed_fail"
    THEN [ok |-> FALSE, index |-> idx,
          exc |-> Exc("Exception", <<"Failed to process document: ", "embedding request failed">>)]
    ELSE LET added == AddTexts(idx, batch, p.chunks, p.metadatas)
         IN  IF outcome = "persist_fail"
             THEN [ok |-> FALSE, index |-> added,
                   exc |-> Exc("Exception", <<"Failed to process document: ", "persist failed">>)]
             ELSE [ok |-> TRUE, index |-> added,
                   result |-> [success |-> TRUE, blob_id |-> blob_id,
                               chunks_created |-> Len(p.chunks),
                               text_length |-> p.text_length]]

-----------------------------------------------------------------------------
(* RAGService.query_documents *)

\* variant of SearchFilter that never sets the filter
SearchFilter_None(document_ids) == NoneObj

\* search_kwargs["filter"]: set only for a non-empty document_ids
SearchFilter(document_ids) ==
    IF Truthy(document_ids)
    THEN [walrus_blob_id |-> [in |-> document_ids.items]]
    ELSE NoneObj

\* variant of Excerpt that cuts and marks every text
Excerpt_Always(t) ==
    [text |-> [t EXCEPT !.hi = t.lo + ExcerptLimit], ellipsis |-> TRUE]

\* page_content[:200] + "..." if len(page_content) > 200 else page_content
Excerpt(t) ==
    IF TextLen(t) > ExcerptLimit
    THEN [text |-> [t EXCEPT !.hi = t.lo + ExcerptLimit], ellipsis |-> TRUE]
    ELSE [text |-> t, ellipsis |-> FALSE]

Sources(docs) ==
    [i \in 1..Len(docs) |->
        [blob_id |-> docs[i].metadata.walrus_blob_id,
         excerpt |-> Excerpt(docs[i].page_content),
         chunk_index |-> docs[i].metadata.chunk_index]]

\* the result returned when the search retrieved nothing
NoInfoResult(question) ==
    [answer |-> MsgNoInfo, sources |-> <<>>, question |-> question]

\* variant of AfterSearch that always goes on to the language model
AfterSearch_AlwaysLlm(question, docs) == [done |-> FALSE]

\* lines 216-221: with nothing retrieved the fixed result is returned at
\* once, otherwise the handler goes on to the language model
AfterSearch(question, docs) ==
    IF docs = <<>>
    THEN [done |-> TRUE, result |-> NoInfoResult(question)]
    ELSE [done |-> FALSE]

LlmOutputs == {"it says so in the introduction", "I don't know"}

-----------------------------------------------------------------------------
(* RAGService.delete_document_embeddings and get_document_stats *)

\* what the collection can do with the delete: chromadb rejects a delete
\* that names no id and no where clause with a ValueError; a collection that
\* tolerates the empty id list is kept as the other possible outcome
DeleteOutcomes(ids) ==
    IF ids = <<>> THEN {"ok", "reject_empty", "persist_fail"} ELSE {"ok", "persist_fail"}

\* delete_document_embeddings: get the ids of the blob's chunks, delete them
\* by id, persist; `results and 'ids' in results` holds for every get result
DeleteDocumentEmbeddings(r, s, idx, blob_id, outcome) ==
    LET v == GetVectorstore(r, s)
        ids == GetIds(idx, blob_id)
    IN  IF ~v.ok
        THEN [ok |-> FALSE, rag |-> v.rag, index |-> idx,
              exc |-> Exc("Exception", <<"Failed to delete document embeddings: ">> \o v.exc.msg)]
        ELSE IF ids = <<>> /\ outcome = "reject_empty"
             THEN [ok |-> FALSE, rag |-> v.rag, index |-> idx,
                   exc |-> Exc("Exception", <<"Failed to delete document embeddings: ",
                                              "You must provide either ids, where, or where_document to delete.">>)]
             ELSE IF outcome = "persist_fail"
                  THEN [ok |-> FALSE, rag |-> v.rag, index |-> DeleteIds(idx, ids),
                        exc |-> Exc("Exception", <<"Failed to delete document embeddings: ", "persist failed">>)]
                  ELSE [ok |-> TRUE, rag |-> v.rag, index |-> DeleteIds(idx, ids),
                        result |-> [success |-> TRUE, deleted_chunks |-> Len(ids)]]

\* get_document_stats
GetDocumentStats(r, s, idx, blob_id) ==
    LET v == GetVectorstore(r, s)
    IN  IF ~v.ok
        THEN [ok |-> FALSE, rag |-> v.rag,
              exc |-> Exc("Exception", <<"Failed to get document stats: ">> \o v.exc.msg)]
        ELSE [ok |-> TRUE, rag |-> v.rag,
              result |-> [blob_id |-> blob_id,
                          total_chunks |-> Len(GetIds(idx, blob_id)),
                          exists |-> TRUE]]

-----------------------------------------------------------------------------
(* main.py: the handlers' own computations *)

\* step 2 of upload_document: the transaction the frontend is to sign, built
\* only when a package id is configured
SuiTransactionData(s, filename, blob_id, is_public) ==
    IF TruthyStr(s.sui_package_id)
    THEN [package_id |-> s.sui_package_id,
          module_name |-> s.sui_module_name,
          function_name |-> "mint_document",
          arguments |-> [name |-> filename, walrus_blob_id |-> blob_id, is_public |-> is_public],
          gas_budget |-> gas_budget]
    ELSE NoneObj

\* variant of UploadError that reports a fixed message
UploadError_Generic(e) == <<"Upload failed">>

\* the detail of the HTTP error of an upload whose Walrus step raised e: the
\* inner handler re-raises with a prefix, the outer one reports the message
UploadError(e) ==
    LET inner == Exc("Exception", <<"Failed to upload to Walrus: ">> \o ErrorMsg(e))
    IN  ErrorMsg(inner)

\* variant of UploadAfterRag that lets a process_document failure end the request
UploadAfterRag_Abort(blob_id, tx, p) ==
    IF p.ok
    THEN [status |-> HTTP_OK,
          body |-> [walrus_blob_id |-> blob_id, sui_transaction_digest |-> None,
                    document_id |-> None, message |-> MsgUploaded, sui_transaction_data |-> tx],
          log |-> {}]
    ELSE [status |-> HTTP_ERROR, detail |-> ErrorMsg(p.exc), log |-> {"Upload failed"}]

\* the end of upload_document once the blob is stored: a failure of
\* process_document (p.ok false) is logged and the same response is returned
UploadAfterRag(blob_id, tx, p) ==
    [status |-> HTTP_OK,
     body |-> [walrus_blob_id |-> blob_id,
               sui_transaction_digest |-> None,
               document_id |-> None,
               message |-> MsgUploaded,
               sui_transaction_data |-> tx],
     log |-> IF p.ok THEN {} ELSE {"RAG processing failed", "Continuing without RAG processing due to error"}]

\* lines 168-175 of query_documents: the document ids the search is given
\* after the registry answered `res`; a raised error is logged and the ids
\* stay as they were
ResolveDocumentIds(document_ids, res) ==
    IF res.ok
    THEN [raised |-> FALSE,
          document_ids |-> List([i \in 1..Len(res.documents) |-> res.documents[i].walrus_blob_id]),
          log |-> {}]
    ELSE [raised |-> FALSE,
          document_ids |-> document_ids,
          log |-> {"Failed to get user documents"}]

\* whether query_documents asks the registry for the wallet's documents
NeedsResolve(request) ==
    TruthyStr(request.wallet_address) /\ ~Truthy(request.document_ids)

-----------------------------------------------------------------------------
(* Requests *)

UploadForms ==
    { [file |-> f, wallet_address |-> "0xA1", is_public |-> FALSE] : f \in Files }
    \cup { [file |-> f, wallet_address |-> "0xB2", is_public |-> TRUE] : f \in {g \in Files : g.blob = "b1"} }

QueryRequests ==
    { [question |-> "q_intro", document_ids |-> NoneObj, wallet_address |-> None],
      [question |-> "q_end", document_ids |-> NoneObj, wallet_address |-> "0xA1"],
      [question |-> "q_intro", document_ids |-> List(<<>>), wallet_address |-> "0xb2"],
      [question |-> "q_end", document_ids |-> List(<<"b1">>), wallet_address |-> None],
      [question |-> "q_intro", document_ids |-> List(<<"b2", "b4">>), wallet_address |-> "0xA1"] }

\* DELETE /documents/{blob_id}?wallet_address=...
DeleteRequests ==
    { [blob_id |-> "b1", wallet_address |-> "0xA1"],
      [blob_id |-> "b1", wallet_address |-> "0xB2"],
      [blob_id |-> "b2", wallet_address |-> "0xB2"],
      [blob_id |-> "b4", wallet_address |-> "0xA1"] }

StatsTargets == {"b1", "b4"}

\* GET /documents/{wallet_address}/{document_id}: the first object minted
\* and an object id the ledger does not hold
DocumentRequests ==
    { [wallet_address |-> "0xa1", document_id |-> <<"0xd", 1>>],
      [wallet_address |-> "0xB2", document_id |-> <<"0xd", 1>>],
      [wallet_address |-> "0xA1", document_id |-> <<"0xd", 0>>] }

\* the mint_document transactions clients sign: any name, blob id
\* and flag, checked against nothing; the second one names a blob that no
\* upload ever stored.  The signer is the key that signs the transaction.
MintRequests ==
    { [name |-> <<"book", "txt">>, walrus_blob_id |-> "b1", is_public |-> FALSE, signer |-> "0xA1"],
      [name |-> <<"book", "txt">>, walrus_blob_id |-> "b9", is_public |-> TRUE, signer |-> "0xB2"] }

\* the DocumentAsset the ledger creates for the n-th mint_document
\* transaction: a fresh object id, the clock's time and the sender of the
\* transaction as owner
DocumentAsset(m, n) ==
    [id |-> <<"0xd", n>>, name |-> m.name, owner |-> m.signer,
     walrus_blob_id |-> m.walrus_blob_id, uploaded_at |-> n, is_public |-> m.is_public]

\* what the ledger can hold when an RPC reads it: the objects of at most
\* MaxMints transactions, signed by clients of the ledger at any time
Ledgers ==
    UNION { { [i \in 1..n |-> DocumentAsset(f[i], i)] : f \in [1..n -> MintRequests] }
            : n \in 0..MaxMints }

Idle == [kind |-> "none", pc |-> "idle"]

NoOut == [kind |-> "none"]

\* what the Chroma persist directory holds when the service starts:
\* nothing, or what an earlier run left behind, the chunks of book.txt
\* uploaded by 0xA1
StartStates ==
    { [index |-> <<>>, batches |-> 0],
      [index |-> AddTexts(<<>>, 1, SplitText([blob |-> "b1", lo |-> 0, hi |-> 3000, newline |-> FALSE]),
                          ChunkMetadatas("b1", <<"book", "txt">>,
                                         SplitText([blob |-> "b1", lo |-> 0, hi |-> 3000, newline |-> FALSE]),
                                         [owner |-> "0xA1", is_public |-> FALSE])),
       batches |-> 1] }

Init ==
    /\ settings \in { [openai_api_key |-> k, sui_package_id |-> p,
                       sui_module_name |-> "registry", similarity_top_k |-> similarity_top_k]
                      : k \in {"", "sk-test"}, p \in {"", "0xpkg"} }
    /\ rag = [_embeddings |-> None, _vectorstore |-> None, _llm |-> None]
    /\ \E kept \in StartStates :
          /\ index = kept.index
          /\ batches = kept.batches
    /\ req = [r \in Reqs |-> Idle]
    /\ loop = "free"
    /\ out = NoOut
    /\ started = 0

\* a handler is entered: the loop is free, the slot is idle and the request
\* budget of the behaviour is not used up; a request in flight is tracked in
\* the first idle slot
Accept(r) ==
    /\ loop = "free"
    /\ req[r].pc = "idle"
    /\ r = "r1" \/ req["r1"].pc /= "idle"
    /\ started < MaxOps
    /\ started' = started + 1

-----------------------------------------------------------------------------
(* POST /upload-document *)

\* the handler reads the file and awaits walrus_service.upload_blob
StartUpload(r, form) ==
    /\ Accept(r)
    /\ req' = [req EXCEPT ![r] = [kind |-> "upload", pc |-> "put", form |-> form]]
    /\ out' = NoOut
    /\ UNCHANGED <<settings, rag, index, batches, loop>>

\* an HTTP error response
HttpError(detail) == [status |-> HTTP_ERROR, detail |-> detail]

\* the response of an upload with what the handler did on the way
UploadOut(resp, form, put, tx, rag_called, rag_ok) ==
    [kind |-> "upload", status |-> resp.status, resp |-> resp, form |-> form, put |-> put,
     tx_built |-> tx /= NoneObj, rag_called |-> rag_called, rag_ok |-> rag_ok]

\* the publisher receives the PUT of a suspended upload and answers it,
\* whenever the handler gets to read the answer
PublisherAnswers(r, resp) ==
    /\ req[r].pc = "put"
    /\ resp \in PutResponses(req[r].form.file)
    /\ req' = [req EXCEPT ![r] = [kind |-> "upload", pc |-> "answered",
                                  form |-> req[r].form, put |-> resp]]
    /\ out' = NoOut
    /\ UNCHANGED <<settings, rag, index, batches, loop, started>>

\* upload_blob is resumed with the answer, reads it and awaits the exit of
\* the `async with httpx.AsyncClient` block
WalrusResponds(r) ==
    /\ loop = "free"
    /\ req[r].pc = "answered"
    /\ req' = [req EXCEPT ![r].pc = "close"]
    /\ out' = NoOut
    /\ UNCHANGED <<settings, rag, index, batches, loop, started>>

\* the client is closed and upload_blob returns or raises: on failure the
\* handler ends in the HTTP error; on success it builds the transaction data
\* and runs process_document up to the embedding call
UploadBlobReturns(r) ==
    /\ loop = "free"
    /\ req[r].pc = "close"
    /\ LET form == req[r].form
           resp == req[r].put
           u == UploadBlob(resp)
       IN  IF ~u.ok
           THEN /\ out' = UploadOut(HttpError(UploadError(u.exc)), form, resp, NoneObj, FALSE, FALSE)
                /\ req' = [req EXCEPT ![r] = Idle]
                /\ UNCHANGED <<rag, loop>>
           ELSE LET tx == SuiTransactionData(settings, form.file.filename, u.blob_id, form.is_public)
                    p == ProcessDocumentBegin(rag, settings, u.blob_id, form.file,
                                              [owner |-> form.wallet_address, is_public |-> form.is_public])
                IN  /\ rag' = p.rag
                    /\ IF ~p.ok
                       THEN /\ out' = UploadOut(UploadAfterRag(u.blob_id, tx, p), form, resp, tx, TRUE, FALSE)
                            /\ req' = [req EXCEPT ![r] = Idle]
                            /\ UNCHANGED loop
                       ELSE /\ out' = NoOut
                            /\ req' = [req EXCEPT ![r] = [kind |-> "upload", pc |-> "embed", form |-> form,
                                                          put |-> resp, blob_id |-> u.blob_id, tx |-> tx, p |-> p]]
                            /\ loop' = r
    /\ UNCHANGED <<settings, index, batches, started>>

\* the embedding call of add_texts returns: the chunks are added and
\* persisted, or process_document raises; the handler answers either way
EmbeddingReturns(r, outcome) ==
    /\ loop = r
    /\ req[r].pc = "embed"
    /\ outcome \in AddOutcomes
    /\ LET rq == req[r]
           f == ProcessDocumentFinish(index, batches + 1, rq.blob_id, rq.p, outcome)
       IN  /\ index' = f.index
           /\ batches' = IF outcome = "embed_fail" THEN batches ELSE batches + 1
           /\ out' = UploadOut(UploadAfterRag(rq.blob_id, rq.tx, f), rq.form, rq.put, rq.tx, TRUE, f.ok)
    /\ req' = [req EXCEPT ![r] = Idle]
    /\ loop' = "free"
    /\ UNCHANGED <<settings, rag, started>>

-----------------------------------------------------------------------------
(* POST /query *)

\* the response of a query with what the handler did on the way
QueryOut(resp, rq) ==
    [kind |-> "query", status |-> resp.status, resp |-> resp, request |-> rq.request,
     resolve |-> rq.resolve, document_ids |-> rq.document_ids, log |-> rq.log,
     rag_called |-> rq.rag_called, searched |-> rq.searched, filter |-> rq.filter,
     docs |-> rq.docs, llm |-> rq.llm]

\* rag_service.query_documents up to the embedding call of the search: the
\* filter is prepared and the vector store opened
QueryRag(r, rq) ==
    LET v == GetVectorstore(rag, settings)
        called == [rq EXCEPT !.rag_called = TRUE, !.filter = SearchFilter(rq.document_ids)]
    IN  /\ rag' = v.rag
        /\ IF ~v.ok
           THEN /\ out' = QueryOut(HttpError(<<"Failed to query documents: ">> \o v.exc.msg), called)
                /\ req' = [req EXCEPT ![r] = Idle]
                /\ loop' = "free"
           ELSE /\ out' = NoOut
                /\ req' = [req EXCEPT ![r] = [called EXCEPT !.pc = "search"]]
                /\ loop' = r

\* the handler is entered: with a wallet address and no document ids it
\* calls the registry, otherwise it goes on to the search
StartQuery(r, request) ==
    /\ Accept(r)
    /\ LET rq == [kind |-> "query", pc |-> "resolve", request |-> request,
                  document_ids |-> request.document_ids, resolve |-> "skipped", log |-> {},
                  rag_called |-> FALSE, searched |-> FALSE, filter |-> NoneObj,
                  docs |-> <<>>, llm |-> "untouched"]
       IN  IF NeedsResolve(request)
           THEN /\ req' = [req EXCEPT ![r] = rq]
                /\ loop' = r
                /\ out' = NoOut
                /\ UNCHANGED rag
           ELSE QueryRag(r, rq)
    /\ UNCHANGED <<settings, index, batches>>

\* sui_service.get_user_documents returns or raises: `reg` is what the
\* ledger holds when it is read, which matters only to an answer that is ok
RegistryReturns(r, rpc, reg) ==
    /\ loop = r
    /\ req[r].pc = "resolve"
    /\ rpc \in RpcOutcomes
    /\ reg \in Ledgers
    /\ rpc = "ok" \/ reg = <<>>
    /\ LET rq == req[r]
           res == GetUserDocuments(reg, rq.request.wallet_address, rpc)
           got == ResolveDocumentIds(rq.document_ids, res)
           resolved == [rq EXCEPT !.resolve = rpc, !.document_ids = got.document_ids, !.log = got.log]
       IN  IF got.raised
           THEN /\ out' = QueryOut(HttpError(res.exc.msg), resolved)
                /\ req' = [req EXCEPT ![r] = Idle]
                /\ loop' = "free"
                /\ UNCHANGED rag
           ELSE QueryRag(r, resolved)
    /\ UNCHANGED <<settings, index, batches, started>>

\* the embedding of the question returns: the search runs; with nothing
\* retrieved the fixed answer is returned, otherwise the language model is
\* built and called
SearchReturns(r, outcome) ==
    /\ loop = r
    /\ req[r].pc = "search"
    /\ outcome \in {"ok", "fail"}
    /\ LET rq == req[r]
           docs == SimilaritySearch(index, rq.request.question, settings.similarity_top_k, rq.filter)
           l == GetLlm(rag, settings)
           seen == [rq EXCEPT !.searched = TRUE, !.docs = docs]
       IN  IF outcome = "fail"
           THEN /\ out' = QueryOut(HttpError(<<"Failed to query documents: ", "embedding request failed">>), rq)
                /\ req' = [req EXCEPT ![r] = Idle]
                /\ loop' = "free"
                /\ UNCHANGED rag
           ELSE IF AfterSearch(rq.request.question, docs).done
                THEN /\ out' = QueryOut([status |-> HTTP_OK,
                                        body |-> AfterSearch(rq.request.question, docs).result], seen)
                     /\ req' = [req EXCEPT ![r] = Idle]
                     /\ loop' = "free"
                     /\ UNCHANGED rag
                ELSE /\ rag' = l.rag
                     /\ IF ~l.ok
                        THEN /\ out' = QueryOut(HttpError(<<"Failed to query documents: ">> \o l.exc.msg), seen)
                             /\ req' = [req EXCEPT ![r] = Idle]
                             /\ loop' = "free"
                        ELSE /\ out' = NoOut
                             /\ req' = [req EXCEPT ![r] = [seen EXCEPT !.pc = "llm", !.llm = "invoked"]]
                             /\ UNCHANGED loop
    /\ UNCHANGED <<settings, index, batches, started>>

\* llm.predict returns the answer or raises
LlmReturns(r, answer) ==
    /\ loop = r
    /\ req[r].pc = "llm"
    /\ answer \in LlmOutputs \cup {"fail"}
    /\ LET rq == req[r]
       IN  IF answer = "fail"
           THEN out' = QueryOut(HttpError(<<"Failed to query documents: ", "completion request failed">>), rq)
           ELSE out' = QueryOut([status |-> HTTP_OK,
                                 body |-> [answer |-> answer, sources |-> Sources(rq.docs),
                                           question |-> rq.request.question]], rq)
    /\ req' = [req EXCEPT ![r] = Idle]
    /\ loop' = "free"
    /\ UNCHANGED <<settings, rag, index, batches, started>>

-----------------------------------------------------------------------------
(* DELETE /documents/{blob_id}, GET /stats/{blob_id}, and the ledger *)

\* delete_document: no ownership check, no external call
DeleteDocument(blob_id, wallet_address, outcome) ==
    /\ loop = "free"
    /\ started < MaxOps
    /\ started' = started + 1
    /\ outcome \in DeleteOutcomes(GetIds(index, blob_id))
    /\ LET d == DeleteDocumentEmbeddings(rag, settings, index, blob_id, outcome)
           resp == IF d.ok
                   THEN [status |-> HTTP_OK,
                         body |-> [message |-> "Document embeddings deleted", blob_id |-> blob_id,
                                   deleted_chunks |-> d.result.deleted_chunks]]
                   ELSE HttpError(d.exc.msg)
       IN  /\ index' = d.index
           /\ rag' = d.rag
           /\ out' = [kind |-> "delete", status |-> resp.status, resp |-> resp,
                      blob_id |-> blob_id, wallet_address |-> wallet_address, chroma |-> outcome]
    /\ UNCHANGED <<settings, batches, req, loop>>

\* get_document_stats
DocumentStats(blob_id) ==
    /\ loop = "free"
    /\ started < MaxOps
    /\ started' = started + 1
    /\ LET g == GetDocumentStats(rag, settings, index, blob_id)
           resp == IF g.ok THEN [status |-> HTTP_OK, body |-> g.result] ELSE HttpError(g.exc.msg)
       IN  /\ rag' = g.rag
           /\ out' = [kind |-> "stats", status |-> resp.status, resp |-> resp, blob_id |-> blob_id]
    /\ UNCHANGED <<settings, index, batches, req, loop>>

\* HTTPException(status_code, detail)
HttpException(status, detail) == [status |-> status, detail |-> detail]

\* the response of GET /documents/{wallet_address}/{document_id}: `rpc` is
\* the outcome of the handler's get_document call, `verify` of the one made
\* by verify_ownership
GetDocumentResponse(s, reg, wallet_address, document_id, rpc, verify) ==
    IF ~TruthyStr(s.sui_package_id)
    THEN HttpException(HTTP_NOT_FOUND, <<"Sui not configured">>)
    ELSE LET d == SuiGetDocument(reg, document_id, rpc)
         IN  IF ~d.ok
             THEN HttpException(HTTP_ERROR, d.exc.msg)
             ELSE IF d.document = NoneObj
                  THEN HttpException(HTTP_NOT_FOUND, <<"Document not found">>)
                  ELSE IF ~d.document.is_public
                          /\ ~VerifyOwnership(reg, document_id, wallet_address, verify)
                       THEN HttpException(HTTP_FORBIDDEN, <<"Access denied">>)
                       ELSE [status |-> HTTP_OK, body |-> d.document]

\* get_document: two synchronous ledger calls, no await in between, that
\* read the ledger `reg`; the outcome of a call that is not made is not an
\* input, nor is the ledger when no call is answered.  Both calls read
\* the one object under the id, so a ledger of one object or none is the
\* whole input.  The response is recorded with the objects the ledger held
\* under the id.
GetDocument(wallet_address, document_id, rpc, verify, reg) ==
    /\ loop = "free"
    /\ started < MaxOps
    /\ started' = started + 1
    /\ reg \in Ledgers
    /\ Len(reg) <= 1
    /\ LET resp == GetDocumentResponse(settings, reg, wallet_address, document_id, rpc, verify)
           called == TruthyStr(settings.sui_package_id)
           verified == called /\ resp.status \in {HTTP_OK, HTTP_FORBIDDEN} /\ rpc = "ok"
                         /\ ~SuiGetDocument(reg, document_id, rpc).document.is_public
       IN  /\ called \/ rpc = "ok"
           /\ (called /\ rpc = "ok") \/ reg = <<>>
           /\ verified \/ verify = "ok"
           /\ out' = [kind |-> "document", status |-> resp.status, resp |-> resp,
                      wallet_address |-> wallet_address, document_id |-> document_id,
                      held |-> {reg[i] : i \in {j \in 1..Len(reg) : reg[j].id = document_id}},
                      rpc |-> IF called THEN rpc ELSE "skipped",
                      verify |-> IF verified THEN verify ELSE "skipped"]
    /\ UNCHANGED <<settings, rag, index, batches, req, loop>>

-----------------------------------------------------------------------------

Next ==
    \/ \E r \in Reqs, form \in UploadForms : StartUpload(r, form)
    \/ \E r \in Reqs, resp \in PutResponseSpace : PublisherAnswers(r, resp)
    \/ \E r \in Reqs : WalrusResponds(r)
    \/ \E r \in Reqs : UploadBlobReturns(r)
    \/ \E r \in Reqs, outcome \in AddOutcomes : EmbeddingReturns(r, outcome)
    \/ \E r \in Reqs, request \in QueryRequests : StartQuery(r, request)
    \/ \E r \in Reqs, rpc \in RpcOutcomes, reg \in Ledgers : RegistryReturns(r, rpc, reg)
    \/ \E r \in Reqs, outcome \in {"ok", "fail"} : SearchReturns(r, outcome)
    \/ \E r \in Reqs, answer \in LlmOutputs \cup {"fail"} : LlmReturns(r, answer)
    \/ \E d \in DeleteRequests, outcome \in {"ok", "reject_empty", "persist_fail"} :
          DeleteDocument(d.blob_id, d.wallet_address, outcome)
    \/ \E b \in StatsTargets : DocumentStats(b)
    \/ \E d \in DocumentRequests, rpc \in RpcOutcomes, verify \in {"ok", "raise"}, reg \in Ledgers :
          GetDocument(d.wallet_address, d.document_id, rpc, verify, reg)

Spec == Init /\ [][Next]_vars

-----------------------------------------------------------------------------
(* Properties *)

\* number of indexed chunks whose metadata carries blob_id
Count(idx, blob_id) ==
    Cardinality({i \in 1..Len(idx) : idx[i].metadata.walrus_blob_id = blob_id})

\* the blob store accepted the PUT and named the blob
PutOk(put) == put.http = "ok" /\ put.json \in {"newlyCreated", "alreadyCertified"}

\* the message the failed PUT came with
Upstream(put) ==
    IF put.http = "error" THEN put.msg ELSE <<"Unexpected Walrus response format: ", "{}">>

IsSuffix(m, detail) ==
    /\ Len(m) <= Len(detail)
    /\ SubSeq(detail, Len(detail) - Len(m) + 1, Len(detail)) = m

\* what the client receives of an upload response
Visible(resp) ==
    IF resp.status = HTTP_OK
    THEN [status |-> resp.status, body |-> resp.body]
    ELSE [status |-> resp.status, detail |-> resp.detail]

\* every add_texts batch with a chunk in the index has all its chunks there
WholeBatches(idx) ==
    \A i \in 1..Len(idx) :
        Cardinality({j \in 1..Len(idx) : idx[j].id[1] = idx[i].id[1]})
            = idx[i].metadata.total_chunks

\* C1: an upload whose blob store put succeeded is answered with success and
\* the blob id the store returned, whether or not the transaction data could
\* be prepared and whether or not process_document failed.
C1_StoredBlobIsReported ==
    (out.kind = "upload" /\ PutOk(out.put))
        => /\ out.status = HTTP_OK
           /\ out.resp.body.walrus_blob_id = out.put.blobId

\* C1 case: the put succeeded, no transaction data was prepared and
\* process_document failed
C1_Witness ==
    /\ out.kind = "upload"
    /\ PutOk(out.put)
    /\ out.rag_called /\ ~out.rag_ok
    /\ ~out.tx_built
    /\ out.status = HTTP_OK

\* C2: the response of an upload whose ingestion failed differs from the
\* response the same upload gets when its ingestion succeeds (a per-stage
\* status in the response tells the two apart).
C2_IngestionFailureIsVisible ==
    (out.kind = "upload" /\ out.status = HTTP_OK /\ out.rag_called /\ ~out.rag_ok)
        => Visible(out.resp)
             /= Visible(UploadAfterRag(out.resp.body.walrus_blob_id,
                                       out.resp.body.sui_transaction_data,
                                       [ok |-> TRUE]))

\* C3: when the blob store put fails, the step that ends the upload delivers
\* an error whose detail ends with the upstream message, with no transaction
\* data built, process_document not called and the index as it was.
C3_PutFailureEndsInError ==
    [][ (out'.kind = "upload" /\ ~PutOk(out'.put))
            => /\ out'.status = HTTP_ERROR
               /\ IsSuffix(Upstream(out'.put), out'.resp.detail)
               /\ ~out'.tx_built
               /\ ~out'.rag_called
               /\ index' = index ]_vars

\* C3 case: an upload ended in the error of a failed put while chunks of
\* other uploads are indexed
C3_Witness ==
    /\ out.kind = "upload"
    /\ out.put.http = "error"
    /\ out.status = HTTP_ERROR
    /\ index /= <<>>

\* C4: whenever process_document fails, the number of indexed chunks of its
\* blob is what it was before the call.
C4_FailedIngestionLeavesCount ==
    [][ (out'.kind = "upload" /\ out'.rag_called /\ ~out'.rag_ok)
            => Count(index', out'.form.file.blob) = Count(index, out'.form.file.blob) ]_vars

\* C5: whenever a query is about to run its search, every batch of chunks a
\* process_document call wrote is in the index whole or not at all, whatever
\* uploads and deletes ran or are in flight.
C5_SearchSeesWholeBatches ==
    \A r \in Reqs : req[r].pc = "search" => WholeBatches(index)

\* C5 case: a query is about to search a non-empty index while an upload
\* is in flight
C5_Witness ==
    \E r1, r2 \in Reqs :
        /\ req[r1].pc = "search"
        /\ req[r2].pc = "put"
        /\ index /= <<>>

\* C6: a query whose document set is non-empty returns no source whose blob
\* id is outside that set.
C6_SourcesInsideDocumentSet ==
    (out.kind = "query" /\ out.status = HTTP_OK /\ Truthy(out.document_ids))
        => \A i \in 1..Len(out.resp.body.sources) :
              out.resp.body.sources[i].blob_id \in Range(out.document_ids.items)

\* C6 case: a filtered query returned sources while chunks of a blob
\* outside its document set are indexed
C6_Witness ==
    /\ out.kind = "query"
    /\ out.status = HTTP_OK
    /\ Truthy(out.document_ids)
    /\ out.resp.body.sources /= <<>>
    /\ \E i \in 1..Len(index) :
          index[i].metadata.walrus_blob_id \notin Range(out.document_ids.items)

\* C7: after a successful delete of blob_id no indexed chunk carries it, the
\* stats of blob_id report 0 chunks, and deleted_chunks is the number of
\* chunks that carried it just before.
C7_DeleteRemovesAll ==
    [][ (out'.kind = "delete" /\ out'.status = HTTP_OK)
            => /\ Count(index', out'.blob_id) = 0
               /\ GetDocumentStats(rag', settings', index', out'.blob_id).result.total_chunks = 0
               /\ out'.resp.body.deleted_chunks = Count(index, out'.blob_id) ]_vars

\* C7 case: a delete removed the chunks of a blob and left others
C7_Witness ==
    /\ out.kind = "delete"
    /\ out.status = HTTP_OK
    /\ out.resp.body.deleted_chunks > 1
    /\ index /= <<>>

\* C8: with the service configured and no persist failure, deleting a blob
\* id that has no indexed chunks succeeds with deleted_chunks = 0 and leaves
\* the index unchanged.
C8_DeleteUnknownSucceeds ==
    [][ ( /\ out'.kind = "delete"
          /\ Count(index, out'.blob_id) = 0
          /\ TruthyStr(settings.openai_api_key)
          /\ out'.chroma /= "persist_fail" )
            => /\ out'.status = HTTP_OK
               /\ out'.resp.body.deleted_chunks = 0
               /\ index' = index ]_vars

\* C9: a query that gave only a wallet address and whose registry lookup
\* failed, by raising or by a result that is not ok, goes on to
\* rag_service.query_documents with no filter, the failure logged; a search
\* it runs is the search over the whole index, and an error it ends in is
\* not the registry's.
C9_ResolveFailureIsNotFatal ==
    (out.kind = "query" /\ out.resolve \in {"raise", "not_ok"})
        => /\ out.rag_called
           /\ ~Truthy(out.document_ids)
           /\ out.filter = NoneObj
           /\ "Failed to get user documents" \in out.log
           /\ (out.searched
                => out.docs = SimilaritySearch(index, out.request.question,
                                               settings.similarity_top_k, NoneObj))
           /\ (out.status = HTTP_ERROR
                => out.resp.detail[1] = "Failed to query documents: ")

\* C10: a query whose search retrieved nothing returns the fixed answer with
\* no source, and neither builds nor calls the language model.
C10_EmptyRetrievalSkipsLlm ==
    (out.kind = "query" /\ out.searched /\ out.docs = <<>>)
        => /\ out.status = HTTP_OK
           /\ out.resp.body.answer = MsgNoInfo
           /\ out.resp.body.sources = <<>>
           /\ out.llm = "untouched"

\* C10 case: the search of a non-empty index retrieved nothing and the
\* language model was never built
C10_Witness ==
    /\ out.kind = "query"
    /\ out.searched
    /\ out.docs = <<>>
    /\ index /= <<>>
    /\ rag._llm = None

\* number of characters of an excerpt: its text and the three dots of the marker
ExcerptLen(e) == TextLen(e.text) + (IF e.ellipsis THEN 3 ELSE 0)

\* C11: an answered query with a non-empty retrieval returns one source per
\* retrieved chunk, in retrieval order; the excerpt is the whole chunk text
\* when it has at most 200 characters, else its first 200 characters and the
\* ellipsis marker; no excerpt is longer than 203 characters.
C11_SourcesMirrorRetrieval ==
    (out.kind = "query" /\ out.status = HTTP_OK /\ out.docs /= <<>>)
        => /\ Len(out.resp.body.sources) = Len(out.docs)
           /\ \A i \in 1..Len(out.docs) :
                 LET src == out.resp.body.sources[i]
                     doc == out.docs[i]
                 IN  /\ src.blob_id = doc.metadata.walrus_blob_id
                     /\ src.chunk_index = doc.metadata.chunk_index
                     /\ IF TextLen(doc.page_content) <= 200
                        THEN src.excerpt = [text |-> doc.page_content, ellipsis |-> FALSE]
                        ELSE src.excerpt = [text |-> [blob |-> doc.page_content.blob,
                                                      lo |-> doc.page_content.lo,
                                                      hi |-> doc.page_content.lo + 200],
                                            ellipsis |-> TRUE]
                     /\ ExcerptLen(src.excerpt) <= 203

\* C11 case: the answer cites a chunk of at most 200 characters in full and
\* a longer chunk cut and marked
C11_Witness ==
    /\ out.kind = "query"
    /\ out.status = HTTP_OK
    /\ \E i, j \in 1..Len(out.docs) :
          /\ TextLen(out.docs[i].page_content) <= 200
          /\ ~out.resp.body.sources[i].excerpt.ellipsis
          /\ TextLen(out.docs[j].page_content) > 200
          /\ ExcerptLen(out.resp.body.sources[j].excerpt) = 203

\* positions of the indexed chunks whose metadata carries blob_id
ChunksOf(idx, blob_id) == {i \in 1..Len(idx) : idx[i].metadata.walrus_blob_id = blob_id}

\* C12: in every reachable index, the chunks of each blob all record the
\* same total_chunks and their chunk_index values are exactly the integers
\* 0..total_chunks-1.
C12_ChunkIndexesContiguous ==
    \A b \in Blobs :
        \A i \in ChunksOf(index, b) :
            /\ \A j \in ChunksOf(index, b) :
                  index[j].metadata.total_chunks = index[i].metadata.total_chunks
            /\ {index[j].metadata.chunk_index : j \in ChunksOf(index, b)}
                  = 0..(index[i].metadata.total_chunks - 1)

\* C13: with no OPENAI_API_KEY the service is constructed and holds no
\* client; every query, delete and stats request ends in the error carrying
\* the missing-key message, with no search run and no body (no fixed
\* answer, no deleted_chunks, no total_chunks); every process_document call
\* fails, with the missing-key message whenever the text could be
\* extracted.
C13_MissingKeyIsConfigurationError ==
    ~TruthyStr(settings.openai_api_key)
        => /\ rag = [_embeddings |-> None, _vectorstore |-> None, _llm |-> None]
           /\ (out.kind \in {"query", "delete", "stats"}
                 => /\ out.status = HTTP_ERROR
                    /\ IsSuffix(MsgNoKey, out.resp.detail))
           /\ (out.kind = "query" => ~out.searched /\ out.llm = "untouched")
           /\ ((out.kind = "upload" /\ out.rag_called)
                 => LET p == ProcessDocumentBegin(rag, settings, out.put.blobId, out.form.file,
                                                  [owner |-> out.form.wallet_address,
                                                   is_public |-> out.form.is_public])
                    IN  /\ ~out.rag_ok
                        /\ ~p.ok
                        /\ (ExtractTextFromFile(out.form.file).ok => IsSuffix(MsgNoKey, p.exc.msg)))

\* C13 case: with no key, a delete of a blob with no chunks that the
\* collection would have accepted ends in the error
C13_Witness ==
    /\ ~TruthyStr(settings.openai_api_key)
    /\ out.kind = "delete"
    /\ out.chroma = "ok"
    /\ out.status = HTTP_ERROR

\* C14: get_document returns metadata only of a document the ledger holds
\* under that id, and of a private one only to a wallet equal to its owner
\* in lower case.  With the registry configured and the handler's lookup
\* answered: an id the ledger does not hold ends in 404, a private document
\* asked for by another wallet ends in 403, a public document is returned
\* to any wallet, and a private one to its owner when the ownership lookup
\* is answered too.
C14_PrivateMetadataOnlyToOwner ==
    out.kind = "document"
        => /\ (out.status = HTTP_OK
                 => \E d \in out.held :
                       /\ out.resp.body = d
                       /\ \/ d.is_public
                          \/ Lower(d.owner) = Lower(out.wallet_address))
           /\ ((TruthyStr(settings.sui_package_id) /\ out.rpc = "ok")
                 => /\ (out.held = {} => out.status = HTTP_NOT_FOUND)
                    /\ \A d \in out.held :
                          /\ (d.is_public => out.status = HTTP_OK /\ out.resp.body = d)
                          /\ ((~d.is_public /\ Lower(d.owner) /= Lower(out.wallet_address))
                                => out.status = HTTP_FORBIDDEN)
                          /\ ((~d.is_public
                                 /\ Lower(d.owner) = Lower(out.wallet_address)
                                 /\ out.verify = "ok")
                                => out.status = HTTP_OK))

\* C14 case: a private document is returned to its owner's address written
\* in another letter case
C14_Witness ==
    /\ out.kind = "document"
    /\ out.status = HTTP_OK
    /\ ~out.resp.body.is_public
    /\ out.resp.body.owner /= out.wallet_address

\* the positions at which a request waits for an external response: the
\* blob store, the registry, the embedding provider, the language model
ExternalCalls == {"put", "answered", "close", "resolve", "embed", "search", "llm"}

\* C15: a request waiting for an external response has given the event loop
\* back, so that another handler can be entered or resumed while it waits.
C15_ExternalCallsSuspend ==
    \A r \in Reqs : req[r].pc \in ExternalCalls => loop = "free"

\* C16: in every reachable index, a blob with indexed chunks has exactly as
\* many of them as each of them records in total_chunks: a second upload of
\* the same content leaves no duplicate.
C16_NoDuplicateChunks ==
    \A b \in Blobs :
        \A i \in ChunksOf(index, b) :
            Count(index, b) = index[i].metadata.total_chunks

\* C17: an answered query that gave a wallet address and no document ids,
\* and whose registry lookup answered, returns only sources of the blobs the
\* lookup resolved; with nothing resolved it returns no source.
C17_OwnerQuerySeesOwnBlobs ==
    (out.kind = "query" /\ out.status = HTTP_OK /\ NeedsResolve(out.request) /\ out.resolve = "ok")
        => \A i \in 1..Len(out.resp.body.sources) :
              out.resp.body.sources[i].blob_id \in Range(out.document_ids.items)

\* C18: a delete request that changes the index was sent with the wallet
\* address recorded as owner in the chunks of its blob; sent with any other
\* address it leaves the index as it was.
C18_DeleteOnlyByOwner ==
    [][ (out'.kind = "delete" /\ index' /= index)
            => \A i \in ChunksOf(index, out'.blob_id) :
                  Lower(index[i].metadata.owner) = Lower(out'.wallet_address) ]_vars

\* the chunks of the index that do not carry blob_id, in insertion order
OtherChunks(idx, blob_id) ==
    LET other(c) == c.metadata.walrus_blob_id /= blob_id
    IN  SelectSeq(idx, other)

\* a step of a query request: its slot holds the query before or after
QueryStep ==
    \E r \in Reqs : req'[r] /= req[r] /\ "query" \in {req[r].kind, req'[r].kind}

\* C19: a delete of blob_id, whatever its outcome, leaves the chunks that
\* carry another blob id as they were (ids, text, metadata, order); a stats
\* request and every step of a query leave the whole index as it was.
C19_DeleteStatsQueryFrame ==
    [][ /\ (out'.kind = "delete"
              => OtherChunks(index', out'.blob_id) = OtherChunks(index, out'.blob_id))
        /\ (out'.kind = "stats" => index' = index)
        /\ (QueryStep => index' = index) ]_vars

\* C19 case: a delete removed the chunks of its blob while chunks of
\* another blob stay indexed
C19_Witness ==
    /\ out.kind = "delete"
    /\ out.status = HTTP_OK
    /\ out.resp.body.deleted_chunks >= 1
    /\ Count(index, out.blob_id) = 0
    /\ OtherChunks(index, out.blob_id) /= <<>>

=============================================================================
